---------------------------- MODULE Spec2Model ----------------------------
(***************************************************************************)
(* A model of src/server.py: the get_weather tool of the Weather MCP       *)
(* server.  One invocation validates its zip_code argument, awaits the     *)
(* geocoding GET (_zip_to_geo), awaits the forecast GET (_current_weather) *)
(* and assembles the result dictionary.  The two upstream services are the *)
(* environment: every await ends with an outcome drawn from a bounded set  *)
(* (a timeout, a connection failure, or a response with a status and a     *)
(* body).                                                                  *)
(*                                                                         *)
(* Python values are modelled as tagged records.  A str is a sequence of   *)
(* characters, a character is a one-token string ("SP" is U+0020 SPACE,    *)
(* "sup2" is U+00B2 SUPERSCRIPT TWO).  A float is a decimal m * 10^-e in   *)
(* lowest terms, or NaN.  A dict is a record over the keys the code reads, *)
(* a key the dict does not hold being mapped to Absent.  A Python function *)
(* that may raise is an operator returning Ok(value) or Err(exception).    *)
(***************************************************************************)
EXTENDS Integers, Sequences, FiniteSets, TLC

\* ------------------------------------------------------------------ bounds

\* The longest zip_code argument the environment passes.
MaxZipLen == 6

\* The longest "places" list the geocoding service returns.
MaxPlaces == 2

\* The number of overlapping invocations of SpecConc.
NumInv == 2

\* ----------------------------------------------------------- Python values

None == [t |-> "null"]
Absent == [t |-> "absent"]
PyBool(b) == [t |-> "bool", b |-> b]
PyStr(s) == [t |-> "str", s |-> s]
PyList(l) == [t |-> "list", l |-> l]
PyDict(f) == [t |-> "dict", f |-> f]
NaN == [t |-> "nan"]

\* The float (or JSON number) m * 10^-e, trailing zeros of the fraction dropped:
\* 42.0 and 42 are the same number, as they are equal in Python.
RECURSIVE PyNum(_, _)
PyNum(m, e) ==
    IF e > 0 /\ m % 10 = 0 THEN PyNum(m \div 10, e - 1)
    ELSE [t |-> "num", m |-> m, e |-> e]

NoError == [type |-> "none", text |-> "", arg |-> None]
Ok(v) == [ok |-> TRUE, value |-> v, error |-> NoError]
Err(x) == [ok |-> FALSE, value |-> None, error |-> x]

\* An exception: its class, the constant text of its message and the value
\* formatted into the message (None when there is none).
Exception(type, text, arg) == [type |-> type, text |-> text, arg |-> arg]

\* bool(v): Python's truth value, which decides every "x or default".
IsEmptyDict(v) == \A k \in DOMAIN v.f : v.f[k] = Absent
Truthy(v) ==
    CASE v.t = "null" -> FALSE
      [] v.t = "bool" -> v.b
      [] v.t = "num"  -> v.m # 0
      [] v.t = "nan"  -> TRUE
      [] v.t = "str"  -> v.s # <<>>
      [] v.t = "list" -> v.l # <<>>
      [] v.t = "dict" -> ~IsEmptyDict(v)
      [] OTHER        -> FALSE

\* x or default
OrElse(v, default) == IF Truthy(v) THEN v ELSE default

\* d.get(k): AttributeError when d is no dict, None when the key is absent.
DictGet(d, k) ==
    IF d.t # "dict"
    THEN Err(Exception("AttributeError", "object has no attribute 'get'", None))
    ELSE Ok(IF d.f[k] = Absent THEN None ELSE d.f[k])

\* d[k]: TypeError when d is not subscriptable by a str, KeyError when absent.
DictItem(d, k) ==
    IF d.t # "dict"
    THEN Err(Exception("TypeError", "object is not subscriptable", None))
    ELSE IF d.f[k] = Absent
    THEN Err(Exception("KeyError", "", PyStr(<<k>>)))
    ELSE Ok(d.f[k])

\* ----------------------------------------------------------------- strings

AsciiDigits == {"0", "1", "2", "3", "4", "5", "6", "7", "8", "9"}

\* str.isspace of one character.
IsSpace(c) == c = "SP"

\* str.isdigit of one character: Python counts every character whose Unicode
\* Numeric_Type is Digit or Decimal, SUPERSCRIPT TWO among them.
IsDigitChar(c) == c \in AsciiDigits \cup {"sup2"}

RECURSIVE lstrip(_)
lstrip(s) == IF s # <<>> /\ IsSpace(Head(s)) THEN lstrip(Tail(s)) ELSE s

RECURSIVE rstrip(_)
rstrip(s) ==
    IF s # <<>> /\ IsSpace(s[Len(s)]) THEN rstrip(SubSeq(s, 1, Len(s) - 1)) ELSE s

\* str.strip()
strip(s) == rstrip(lstrip(s))

\* str.isdigit(): at least one character, and every character a digit.
isdigit(s) == s # <<>> /\ \A k \in 1..Len(s) : IsDigitChar(s[k])

DigitValue(c) ==
    CASE c = "0" -> 0 [] c = "1" -> 1 [] c = "2" -> 2 [] c = "3" -> 3
      [] c = "4" -> 4 [] c = "5" -> 5 [] c = "6" -> 6 [] c = "7" -> 7
      [] c = "8" -> 8 [] c = "9" -> 9 [] OTHER -> 0

RECURSIVE DigitsToInt(_, _)
DigitsToInt(s, acc) ==
    IF s = <<>> THEN acc ELSE DigitsToInt(Tail(s), acc * 10 + DigitValue(Head(s)))

\* float(str): surrounding whitespace is ignored; an optional sign, then
\* digits with at most one point and at least one digit, or "nan".  (The
\* exponent, underscore and infinity forms need characters the model's
\* alphabet does not hold.)
StrToFloat(s) ==
    LET t == strip(s)
        signed == t # <<>> /\ Head(t) \in {"-", "+"}
        u == IF signed THEN Tail(t) ELSE t
        dots == {k \in 1..Len(u) : u[k] = "."}
        p == IF dots = {} THEN Len(u) + 1 ELSE CHOOSE k \in dots : TRUE
        whole == SubSeq(u, 1, p - 1)
        frac == SubSeq(u, p + 1, Len(u))
        digits == whole \o frac
        mag == DigitsToInt(digits, 0)
    IN  IF u = <<"n", "a", "n">> THEN Ok(NaN)
        ELSE IF \/ digits = <<>>
                \/ Cardinality(dots) > 1
                \/ \E k \in 1..Len(digits) : digits[k] \notin AsciiDigits
        THEN Err(Exception("ValueError", "could not convert string to float", None))
        ELSE Ok(PyNum(IF signed /\ Head(t) = "-" THEN 0 - mag ELSE mag, Len(frac)))

\* float(v), for v a value of a parsed JSON body (Absent never reaches it).
float(v) ==
    CASE v.t = "num"  -> Ok(v)
      [] v.t = "nan"  -> Ok(v)
      [] v.t = "bool" -> Ok(PyNum(IF v.b THEN 1 ELSE 0, 0))
      [] v.t = "str"  -> StrToFloat(v.s)
      [] OTHER        -> Err(Exception("TypeError",
                              "float() argument must be a string or a real number", None))

\* -------------------------------------------------------------------- HTTP

\* AsyncClient(timeout=15): the bound, in seconds, on each of the two calls.
TimeoutSeconds == 15

\* What one awaited client.get() ends with.  NotJson is a body resp.json()
\* cannot decode.
NotJson == [t |-> "notjson"]
TimedOut == [kind |-> "timeout", status |-> 0, body |-> None]
ConnectFailed == [kind |-> "connect_error", status |-> 0, body |-> None]
Response(status, body) == [kind |-> "response", status |-> status, body |-> body]

\* await client.get(...): httpx raises on a timeout or a connection failure
\* and returns the response otherwise, whatever its status.
client_get(outcome) ==
    CASE outcome.kind = "timeout" ->
            Err(Exception("httpx.TimeoutException", "timed out", None))
      [] outcome.kind = "connect_error" ->
            Err(Exception("httpx.ConnectError", "connection failed", None))
      [] OTHER -> Ok(outcome)

\* A variant of is_success that lets every status below 400 pass.
is_success_Below400(status) == status < 400

\* Response.is_success: a 2xx status.
is_success(status) == 200 <= status /\ status <= 299

\* resp.raise_for_status(): HTTPStatusError for every status that is not 2xx.
raise_for_status(resp) ==
    IF is_success(resp.status) THEN Ok(resp)
    ELSE Err(Exception("httpx.HTTPStatusError", "status", PyNum(resp.status, 0)))

\* resp.json()
json(resp) ==
    IF resp.body = NotJson
    THEN Err(Exception("json.JSONDecodeError", "Expecting value", None))
    ELSE Ok(resp.body)

\* ------------------------------------------------------------- _zip_to_geo

PlaceKeys == {"place name", "state", "latitude", "longitude"}

\* One entry of the geocoding "places" list, as the JSON decoder returns it.
PlaceDict(name, state, lat, lon) ==
    PyDict([k \in PlaceKeys |->
              CASE k = "place name" -> name
                [] k = "state"      -> state
                [] k = "latitude"   -> lat
                [] k = "longitude"  -> lon])

\* The geocoding body: a dict that may hold "places".
GeoBody(places) == PyDict([k \in {"places"} |-> places])

\* The request of line 78: GET https://api.zippopotam.us/{country}/{zip_code}
GeoRequest(country, zip_code) ==
    [url |-> "https://api.zippopotam.us", path |-> <<country, zip_code>>,
     params |-> None, timeout |-> TimeoutSeconds]

\* class Geo
Geo(place_name, latitude, longitude, state) ==
    [place_name |-> place_name, latitude |-> latitude,
     longitude |-> longitude, state |-> state]

\* A variant of FirstPlace that takes the last entry of the list.
LastPlace(places) ==
    IF places.t = "list" /\ places.l # <<>>
    THEN Ok(places.l[Len(places.l)])
    ELSE Err(Exception("TypeError", "object is not subscriptable", None))

\* places[0]
FirstPlace(places) ==
    CASE places.t = "list" ->
            IF places.l = <<>>
            THEN Err(Exception("IndexError", "list index out of range", None))
            ELSE Ok(places.l[1])
      [] places.t = "str" ->
            IF places.s = <<>>
            THEN Err(Exception("IndexError", "string index out of range", None))
            ELSE Ok(PyStr(<<places.s[1]>>))
      [] places.t = "dict" -> Err(Exception("KeyError", "", PyNum(0, 0)))
      [] OTHER -> Err(Exception("TypeError", "object is not subscriptable", None))

\* float(place[key])
Coordinate(place, key) ==
    LET item == DictItem(place, key)
    IN  IF item.ok THEN float(item.value) ELSE item

\* A variant of ParseCoordinates without the try: the exception of float() or
\* of the subscript propagates as raised.
ParseCoordinates_Uncaught(place) ==
    LET lat == Coordinate(place, "latitude")
        lon == Coordinate(place, "longitude")
    IN  IF ~lat.ok THEN lat
        ELSE IF ~lon.ok THEN lon
        ELSE Ok([latitude |-> lat.value, longitude |-> lon.value])

\* Lines 103-107: lat and lon parsed inside try, any exception replaced by
\* ValueError("Unexpected geocoding response").
ParseCoordinates(place) ==
    LET lat == Coordinate(place, "latitude")
        lon == Coordinate(place, "longitude")
    IN  IF lat.ok /\ lon.ok
        THEN Ok([latitude |-> lat.value, longitude |-> lon.value])
        ELSE Err(Exception("ValueError", "Unexpected geocoding response", None))

\* Lines 92-94: data.get("places") or [], and the test that rejects it.
PlacesOf(data) ==
    LET got == DictGet(data, "places")
    IN  IF got.ok THEN Ok(OrElse(got.value, PyList(<<>>))) ELSE got

\* A variant of NoPlaces that tests "places is None".
NoPlaces_OnlyNone(places) == places = None

NoPlaces(places) == ~Truthy(places)

\* A variant of UnknownZip whose message leaves the code out.
UnknownZip_NoCode(zip_code) == Exception("ValueError", "Unknown ZIP code: ", None)

\* Lines 81-82: the 404 of the geocoding service.
UnknownZip(zip_code) ==
    Exception("ValueError", "Unknown ZIP code: ", PyStr(zip_code))

\* Lines 97-110: the Geo of the first place.
GeoOfPlaces(places) ==
    LET first == FirstPlace(places)
    IN  IF ~first.ok THEN first
        ELSE LET place == first.value
                 name == DictGet(place, "place name")
                 state == DictGet(place, "state")
                 coords == ParseCoordinates(place)
             IN  IF ~name.ok THEN name
                 ELSE IF ~state.ok THEN state
                 ELSE IF ~coords.ok THEN coords
                 ELSE Ok(Geo(OrElse(name.value, PyStr(<<>>)), coords.value.latitude,
                             coords.value.longitude, state.value))

\* _zip_to_geo from the end of its await: lines 78-110.
zip_to_geo(zip_code, outcome) ==
    LET got == client_get(outcome)
    IN  IF ~got.ok THEN got
        ELSE IF got.value.status = 404 THEN Err(UnknownZip(zip_code))
        ELSE IF ~raise_for_status(got.value).ok THEN raise_for_status(got.value)
        ELSE IF ~json(got.value).ok THEN json(got.value)
        ELSE LET places == PlacesOf(json(got.value).value)
             IN  IF ~places.ok THEN places
                 ELSE IF NoPlaces(places.value)
                 THEN Err(Exception("ValueError", "No places found for ZIP code: ",
                                    PyStr(zip_code)))
                 ELSE GeoOfPlaces(places.value)

\* -------------------------------------------------------- _current_weather

ObservedKeys ==
    {"time", "temperature_2m", "apparent_temperature", "relative_humidity_2m",
     "precipitation", "weather_code", "wind_speed_10m"}

\* The forecast body: a dict that may hold "current".
WeatherBody(current) == PyDict([k \in {"current"} |-> current])

\* A variant of WeatherRequest with the two coordinates exchanged.
WeatherRequest_Swapped(lat, lon) ==
    [url |-> "https://api.open-meteo.com/v1/forecast", path |-> <<>>,
     params |-> [latitude |-> lon, longitude |-> lat,
                 current |-> "temperature_2m,relative_humidity_2m,apparent_temperature,precipitation,weather_code,wind_speed_10m",
                 temperature_unit |-> "fahrenheit", wind_speed_unit |-> "mph",
                 precipitation_unit |-> "inch", timezone |-> "auto"],
     timeout |-> TimeoutSeconds]

\* The request of lines 131-155.
WeatherRequest(lat, lon) ==
    [url |-> "https://api.open-meteo.com/v1/forecast", path |-> <<>>,
     params |-> [latitude |-> lat, longitude |-> lon,
                 current |-> "temperature_2m,relative_humidity_2m,apparent_temperature,precipitation,weather_code,wind_speed_10m",
                 temperature_unit |-> "fahrenheit", wind_speed_unit |-> "mph",
                 precipitation_unit |-> "inch", timezone |-> "auto"],
     timeout |-> TimeoutSeconds]

\* _current_weather from the end of its await: lines 155-157.
current_weather(outcome) ==
    LET got == client_get(outcome)
    IN  IF ~got.ok THEN got
        ELSE IF ~raise_for_status(got.value).ok THEN raise_for_status(got.value)
        ELSE json(got.value)

\* ------------------------------------------------------------- get_weather

\* Lines 176-178: the test on the stripped argument.
ValidZip(zip_code) == isdigit(zip_code) /\ Len(zip_code) = 5

InvalidZip == Exception("ValueError", "zip_code must be a 5-digit string", None)

EmptyDict == PyDict([k \in ObservedKeys |-> Absent])

\* A variant of CurrentOf without the "or {}".
CurrentOf_NoDefault(weather) == DictGet(weather, "current")

\* Line 187: weather.get("current") or {}
CurrentOf(weather) ==
    LET got == DictGet(weather, "current")
    IN  IF got.ok THEN Ok(OrElse(got.value, EmptyDict)) ELSE got

\* Lines 210-218: current.get(key) for each of the seven keys.
Observed(current) ==
    IF current.t # "dict" THEN DictGet(current, "time")
    ELSE Ok([k \in ObservedKeys |-> DictGet(current, k).value])

\* Lines 203-207 and 221-224.
Units == [temperature |-> "F", wind_speed |-> "mph", precipitation |-> "inch"]
Source == [geocoding |-> "https://api.zippopotam.us",
           forecast |-> "https://api.open-meteo.com"]

\* Lines 190-225: the returned dictionary.
BuildResult(zip_code, geo, observed) ==
    [zip_code |-> PyStr(zip_code),
     location |-> [place_name |-> geo.place_name, state |-> geo.state,
                   latitude |-> geo.latitude, longitude |-> geo.longitude],
     units |-> Units,
     observed |-> observed,
     source |-> Source]

\* get_weather from the end of its second await: lines 184-225.
Assemble(zip_code, geo, outcome) ==
    LET weather == current_weather(outcome)
    IN  IF ~weather.ok THEN weather
        ELSE LET current == CurrentOf(weather.value)
             IN  IF ~current.ok THEN current
                 ELSE LET observed == Observed(current.value)
                      IN  IF ~observed.ok THEN observed
                          ELSE Ok(BuildResult(zip_code, geo, observed.value))

\* ------------------------------------------------------------- environment

\* The characters of a zip_code argument: an ASCII digit, a letter, a space
\* and a digit that is not ASCII.
ZipChars == {"1", "a", "SP", "sup2"}

\* Every argument of at most MaxZipLen characters.
ZipArguments == UNION {[1..n -> ZipChars] : n \in 0..MaxZipLen}

Allston == PyStr(<<"Allston">>)
MA == PyStr(<<"MA">>)
Lat0 == PyStr(<<"4", "2", ".", "3">>)
Lon0 == PyStr(<<"-", "7", "1", ".", "1">>)

PlaceNames == {Allston, PyStr(<<>>), None, Absent, PyNum(7, 0)}
PlaceStates == {MA, None, Absent, PyNum(0, 0)}
LatValues ==
    {Lat0, PyStr(<<"SP", "4", "2", ".", "3", "0", "SP">>), PyNum(423, 1),
     PyStr(<<"n", "a", "n">>), PyBool(TRUE),
     PyStr(<<"a", "b", "c">>), PyStr(<<>>), PyStr(<<"4", ".", "2", ".">>),
     None, PyList(<<>>), Absent}
LonValues == {Lon0, PyNum(0 - 711, 1), PyStr(<<"-">>), None, Absent}

\* The first entry of a "places" list: a well-formed entry with one field
\* varied, an entry without any field, and entries that are no dict.
FirstPlaces ==
    {PlaceDict(n, MA, Lat0, Lon0) : n \in PlaceNames}
    \cup {PlaceDict(Allston, st, Lat0, Lon0) : st \in PlaceStates}
    \cup {PlaceDict(Allston, MA, lat, Lon0) : lat \in LatValues}
    \cup {PlaceDict(Allston, MA, Lat0, lon) : lon \in LonValues}
    \cup {PlaceDict(Absent, Absent, Absent, Absent), None, PyStr(<<"x">>)}

\* A later entry: well-formed, and different from the first in every field.
OtherPlace ==
    PlaceDict(PyStr(<<"Brighton">>), PyStr(<<"NY">>),
              PyStr(<<"4", "0", ".", "7">>), PyStr(<<"-", "7", "4">>))

PlacesLists ==
    {<<p>> \o rest : p \in FirstPlaces,
                     rest \in UNION {[1..n -> {OtherPlace}] : n \in 0..(MaxPlaces - 1)}}

GoodGeoBody == GeoBody(PyList(<<PlaceDict(Allston, MA, Lat0, Lon0), OtherPlace>>))

GeoBodies ==
    {NotJson, None, PyList(<<>>)}
    \cup {GeoBody(p) : p \in {Absent, None, PyList(<<>>), PyNum(0, 0), PyNum(5, 0),
                              PyStr(<<"x">>)}}
    \cup {GeoBody(PyList(l)) : l \in PlacesLists}

\* A status that fails is paired with a well-formed body, so that only the
\* status stands between the response and a result.
GeoOutcomes ==
    {TimedOut, ConnectFailed}
    \cup {Response(st, GoodGeoBody) : st \in {201, 301, 404, 500}}
    \cup {Response(200, b) : b \in GeoBodies}

ObservedValue(k) ==
    CASE k = "time"                 -> PyStr(<<"2024-05-01T12:00">>)
      [] k = "temperature_2m"       -> PyNum(583, 1)
      [] k = "apparent_temperature" -> PyNum(55, 0)
      [] k = "relative_humidity_2m" -> PyNum(40, 0)
      [] k = "precipitation"        -> PyNum(0, 0)
      [] k = "weather_code"         -> PyNum(3, 0)
      [] k = "wind_speed_10m"       -> PyNum(125, 1)

\* "current" objects: every field, every field but one, one field, none;
\* and one field null or of an unexpected type.
CurrentDicts ==
    {PyDict([k \in ObservedKeys |-> IF k \in held THEN ObservedValue(k) ELSE Absent]) :
        held \in {h \in SUBSET ObservedKeys : Cardinality(h) <= 1 \/ Cardinality(h) >= 6}}
    \cup {PyDict([k \in ObservedKeys |->
                    IF k = "temperature_2m" THEN v ELSE ObservedValue(k)]) :
            v \in {None, PyStr(<<"warm">>), PyList(<<>>)}}

GoodWeatherBody == WeatherBody(PyDict([k \in ObservedKeys |-> ObservedValue(k)]))

WeatherBodies ==
    {NotJson, None, PyList(<<>>)}
    \cup {WeatherBody(c) : c \in {Absent, None, PyList(<<>>), PyStr(<<"sunny">>),
                                  PyNum(1, 0)}}
    \cup {WeatherBody(c) : c \in CurrentDicts}

WeatherOutcomes ==
    {TimedOut, ConnectFailed}
    \cup {Response(st, GoodWeatherBody) : st \in {201, 301, 404, 500}}
    \cup {Response(200, b) : b \in WeatherBodies}

\* The smaller environment of overlapping invocations.
ConcZipArguments ==
    {<<"1", "1", "1", "1", "1">>, <<"SP", "1", "1", "1", "1", "1">>, <<"1", "a">>}
ConcGeoOutcomes ==
    {TimedOut, Response(404, GoodGeoBody), Response(200, GoodGeoBody),
     Response(200, GeoBody(PyList(<<OtherPlace>>)))}
ConcWeatherOutcomes ==
    {Response(500, GoodWeatherBody), Response(200, GoodWeatherBody),
     Response(200, WeatherBody(Absent))}

\* ------------------------------------------------------------------- state

VARIABLES
    pc,         \* where each invocation stands: idle, await_geo, await_weather, done
    argument,   \* the zip_code argument each invocation was called with
    zip_code,   \* the local zip_code after line 176
    requests,   \* the HTTP requests each invocation has issued, in order
    geo_reply,  \* what the geocoding await ended with
    geo,        \* the local geo of line 181
    wx_reply,   \* what the forecast await ended with
    returned    \* what the invocation ended with: Ok(result) or Err(exception)

vars == <<pc, argument, zip_code, requests, geo_reply, geo, wx_reply, returned>>

NoArgument == <<"unset">>
NoReply == [kind |-> "none", status |-> 0, body |-> None]
NoGeo == Geo(None, None, None, None)
Pending == [ok |-> FALSE, value |-> None, error |-> NoError]

\* A variant of Local that keeps the value in one module-level variable, the
\* slot of invocation 1, for every invocation.
Shared(var, i) == var[1]

\* The locals of one invocation are its own: each coroutine has its frame.
Local(var, i) == var[i]

InitOf(invocations) ==
    /\ pc = [i \in invocations |-> "idle"]
    /\ argument = [i \in invocations |-> NoArgument]
    /\ zip_code = [i \in invocations |-> <<>>]
    /\ requests = [i \in invocations |-> <<>>]
    /\ geo_reply = [i \in invocations |-> NoReply]
    /\ geo = [i \in invocations |-> NoGeo]
    /\ wx_reply = [i \in invocations |-> NoReply]
    /\ returned = [i \in invocations |-> Pending]

\* One invocation, in the full environment.
Single == {1}

Init == InitOf(Single)

\* NumInv invocations whose steps interleave, as the event loop runs them.
Overlapping == 1..NumInv

InitConc == InitOf(Overlapping)

\* get_weather is called: lines 176-181 up to the await inside _zip_to_geo.
Call(i, arguments) ==
    /\ pc[i] = "idle"
    /\ \E arg \in arguments :
        LET stripped == strip(arg)
        IN  /\ argument' = [argument EXCEPT ![i] = arg]
            /\ zip_code' = [zip_code EXCEPT ![i] = stripped]
            /\ IF ValidZip(stripped)
               THEN /\ requests' = [requests EXCEPT ![i] = Append(@, GeoRequest("us", stripped))]
                    /\ pc' = [pc EXCEPT ![i] = "await_geo"]
                    /\ returned' = returned
               ELSE /\ requests' = requests
                    /\ pc' = [pc EXCEPT ![i] = "done"]
                    /\ returned' = [returned EXCEPT ![i] = Err(InvalidZip)]
    /\ UNCHANGED <<geo_reply, geo, wx_reply>>

\* The geocoding await ends: lines 78-110, then line 184 up to the await
\* inside _current_weather.
GeoResponse(i, outcomes) ==
    /\ pc[i] = "await_geo"
    /\ \E outcome \in outcomes :
        LET found == zip_to_geo(Local(zip_code, i), outcome)
        IN  /\ geo_reply' = [geo_reply EXCEPT ![i] = outcome]
            /\ IF found.ok
               THEN /\ geo' = [geo EXCEPT ![i] = found.value]
                    /\ requests' = [requests EXCEPT ![i] =
                          Append(@, WeatherRequest(found.value.latitude,
                                                   found.value.longitude))]
                    /\ pc' = [pc EXCEPT ![i] = "await_weather"]
                    /\ returned' = returned
               ELSE /\ geo' = geo
                    /\ requests' = requests
                    /\ pc' = [pc EXCEPT ![i] = "done"]
                    /\ returned' = [returned EXCEPT ![i] = found]
    /\ UNCHANGED <<argument, zip_code, wx_reply>>

\* The forecast await ends: lines 155-157, then lines 187-225.
WeatherResponse(i, outcomes) ==
    /\ pc[i] = "await_weather"
    /\ \E outcome \in outcomes :
        /\ wx_reply' = [wx_reply EXCEPT ![i] = outcome]
        /\ returned' = [returned EXCEPT ![i] =
              Assemble(Local(zip_code, i), Local(geo, i), outcome)]
    /\ pc' = [pc EXCEPT ![i] = "done"]
    /\ UNCHANGED <<argument, zip_code, requests, geo_reply, geo>>

Next ==
    \/ \E i \in Single : Call(i, ZipArguments)
    \/ \E i \in Single : GeoResponse(i, GeoOutcomes)
    \/ \E i \in Single : WeatherResponse(i, WeatherOutcomes)

Spec == Init /\ [][Next]_vars

NextConc ==
    \/ \E i \in Overlapping : Call(i, ConcZipArguments)
    \/ \E i \in Overlapping : GeoResponse(i, ConcGeoOutcomes)
    \/ \E i \in Overlapping : WeatherResponse(i, ConcWeatherOutcomes)

SpecConc == InitConc /\ [][NextConc]_vars

\* ------------------------------------------------- vocabulary of the claims

Invocations == DOMAIN pc
Done(i) == pc[i] = "done"
Succeeded(i) == Done(i) /\ returned[i].ok
Failed(i) == Done(i) /\ ~returned[i].ok

\* The error taxonomy of the specification, read off the raised exception.
ErrorKind(x) ==
    CASE x.type = "ValueError" /\ x.text = "zip_code must be a 5-digit string" ->
            "InvalidArgument"
      [] x.type = "ValueError" /\ x.text \in {"Unknown ZIP code: ",
                                              "No places found for ZIP code: "} ->
            "NotFound"
      [] x.type = "ValueError" /\ x.text = "Unexpected geocoding response" ->
            "MalformedUpstreamResponse"
      [] x.type = "httpx.HTTPStatusError" -> "UpstreamError"
      [] x.type \in {"httpx.TimeoutException", "httpx.ConnectError"} ->
            "UpstreamUnavailable"
      [] OTHER -> "Other"

FailedWith(i, kind) == Failed(i) /\ ErrorKind(returned[i].error) = kind

IsGeoRequest(r) == r.url = "https://api.zippopotam.us"
IsWeatherRequest(r) == r.url = "https://api.open-meteo.com/v1/forecast"
GeoRequests(i) == {k \in 1..Len(requests[i]) : IsGeoRequest(requests[i][k])}
WeatherRequests(i) == {k \in 1..Len(requests[i]) : IsWeatherRequest(requests[i][k])}

\* Exactly five of the decimal digits 0-9.
FiveDecimalDigits(s) == Len(s) = 5 /\ \A k \in 1..Len(s) : s[k] \in AsciiDigits

Called(i) == argument[i] # NoArgument

\* A reply that is a response with a success status and a JSON body.
SuccessStatus(reply) ==
    reply.kind = "response" /\ reply.status >= 200 /\ reply.status <= 299
SuccessJson(reply) == SuccessStatus(reply) /\ reply.body # NotJson
SuccessDict(reply) == SuccessJson(reply) /\ reply.body.t = "dict"

\* A reply that is a timeout, a connection failure or a status that is not 2xx.
UpstreamFailure(reply) == reply # NoReply /\ ~SuccessStatus(reply)

\* The geocoding reply holds a non-empty "places" list.
HasPlaces(reply) ==
    /\ SuccessDict(reply)
    /\ reply.body.f["places"].t = "list"
    /\ reply.body.f["places"].l # <<>>

FirstEntry(reply) == reply.body.f["places"].l[1]

\* The field of a place entry parses as a floating-point number.
Numeric(place, key) == place.f[key] # Absent /\ float(place.f[key]).ok

\* ------------------------------------------------------------------ claims

\* C1: an argument that, trimmed, is not exactly five decimal digits (0-9)
\* fails with InvalidArgument and no request is ever issued; an argument that,
\* trimmed, is exactly five decimal digits passes validation and the geocoding
\* request for it is issued.
C1_ValidationByDecimalDigits ==
    \A i \in Invocations :
        Called(i) =>
            IF FiveDecimalDigits(strip(argument[i]))
            THEN /\ requests[i] # <<>>
                 /\ requests[i][1] = GeoRequest("us", strip(argument[i]))
            ELSE /\ FailedWith(i, "InvalidArgument")
                 /\ requests[i] = <<>>

\* C2: a geocoding success whose body has an empty or missing "places" list
\* makes the invocation fail with NotFound, and no weather request is issued.
C2_EmptyPlacesNotFound ==
    \A i \in Invocations :
        (/\ SuccessDict(geo_reply[i])
         /\ geo_reply[i].body.f["places"] \in {Absent, PyList(<<>>)})
        => /\ FailedWith(i, "NotFound")
           /\ returned[i].error.text = "No places found for ZIP code: "
           /\ WeatherRequests(i) = {}

C2_Witness ==
    \E i \in Invocations :
        /\ SuccessDict(geo_reply[i])
        /\ geo_reply[i].body.f["places"] = PyList(<<>>)
        /\ FailedWith(i, "NotFound")

\* C3 as stated: a geocoding 404 fails with NotFound whose message quotes the
\* original postal code passed to get_weather, and any other non-success
\* status fails with UpstreamError instead.
C3_QuotesOriginalArgument ==
    \A i \in Invocations :
        /\ (geo_reply[i].kind = "response" /\ geo_reply[i].status = 404)
            => /\ FailedWith(i, "NotFound")
               /\ returned[i].error.arg = PyStr(argument[i])
        /\ (geo_reply[i].kind = "response" /\ geo_reply[i].status # 404
                /\ ~SuccessStatus(geo_reply[i]))
            => FailedWith(i, "UpstreamError")

\* C3 amended: a geocoding 404 fails with NotFound whose message quotes the
\* postal code passed to get_weather with its surrounding whitespace trimmed,
\* and any other non-success status fails with UpstreamError, which carries
\* the status, instead.
C3_QuotesTrimmedArgument ==
    \A i \in Invocations :
        /\ (geo_reply[i].kind = "response" /\ geo_reply[i].status = 404)
            => /\ FailedWith(i, "NotFound")
               /\ returned[i].error.text = "Unknown ZIP code: "
               /\ returned[i].error.arg = PyStr(strip(argument[i]))
        /\ (geo_reply[i].kind = "response" /\ geo_reply[i].status # 404
                /\ ~SuccessStatus(geo_reply[i]))
            => /\ FailedWith(i, "UpstreamError")
               /\ returned[i].error.arg = PyNum(geo_reply[i].status, 0)

C3_Witness ==
    \E i \in Invocations :
        /\ geo_reply[i].kind = "response" /\ geo_reply[i].status = 404
        /\ argument[i] # strip(argument[i])
        /\ FailedWith(i, "NotFound")
        /\ returned[i].error.arg = PyStr(strip(argument[i]))

\* C4: a geocoding success with a non-empty "places" list whose first entry
\* has a latitude or a longitude that does not parse as a floating-point
\* number (non-numeric, or absent) fails with MalformedUpstreamResponse, which
\* is not NotFound, and no weather request is issued.
C4_BadCoordinatesMalformed ==
    /\ \A v \in {PyStr(<<"a", "b", "c">>), PyStr(<<>>), None} : ~float(v).ok
    /\ \A i \in Invocations :
        (/\ HasPlaces(geo_reply[i])
         /\ FirstEntry(geo_reply[i]).t = "dict"
         /\ \/ ~Numeric(FirstEntry(geo_reply[i]), "latitude")
            \/ ~Numeric(FirstEntry(geo_reply[i]), "longitude"))
        => /\ FailedWith(i, "MalformedUpstreamResponse")
           /\ ~FailedWith(i, "NotFound")
           /\ returned[i].error.text = "Unexpected geocoding response"
           /\ WeatherRequests(i) = {}

C4_Witness ==
    \E i \in Invocations :
        /\ HasPlaces(geo_reply[i])
        /\ FirstEntry(geo_reply[i]).t = "dict"
        /\ FirstEntry(geo_reply[i]).f["latitude"] = PyStr(<<"a", "b", "c">>)
        /\ Len(geo_reply[i].body.f["places"].l) > 1
        /\ FailedWith(i, "MalformedUpstreamResponse")

\* C5: after a successful geocoding, a weather success whose body has no
\* "current" key gives a success result whose "observed" has exactly the seven
\* keys, every one of them null.
C5_NoCurrentAllNull ==
    \A i \in Invocations :
        (/\ geo[i] # NoGeo
         /\ SuccessDict(wx_reply[i])
         /\ wx_reply[i].body.f["current"] = Absent)
        => /\ Succeeded(i)
           /\ DOMAIN returned[i].value.observed = ObservedKeys
           /\ Cardinality(ObservedKeys) = 7
           /\ \A k \in ObservedKeys : returned[i].value.observed[k] = None

C5_Witness ==
    \E i \in Invocations :
        /\ geo[i] # NoGeo
        /\ SuccessDict(wx_reply[i])
        /\ wx_reply[i].body.f["current"] = Absent
        /\ Succeeded(i)

\* The "current" object of a weather reply, and what a result must report for
\* one of its keys: the value the object holds, null when it holds none.
CurrentObject(reply) == reply.body.f["current"]
Reported(reply, k) ==
    IF CurrentObject(reply).t = "dict" /\ CurrentObject(reply).f[k] # Absent
    THEN CurrentObject(reply).f[k]
    ELSE None

C7_NoRetryNoSwallow ==
    \A i \in Invocations :
        /\ Cardinality(GeoRequests(i)) <= 1
        /\ Cardinality(WeatherRequests(i)) <= 1
        /\ \A reply \in {geo_reply[i], wx_reply[i]} :
              UpstreamFailure(reply) =>
                  /\ Failed(i)
                  /\ IF reply.kind = "response"
                     THEN ErrorKind(returned[i].error) \in {"UpstreamError", "NotFound"}
                     ELSE ErrorKind(returned[i].error) = "UpstreamUnavailable"
        /\ UpstreamFailure(geo_reply[i]) => wx_reply[i] = NoReply /\ WeatherRequests(i) = {}
        /\ Succeeded(i) => SuccessStatus(geo_reply[i]) /\ SuccessStatus(wx_reply[i])

C7_Witness ==
    \E i \in Invocations :
        /\ SuccessStatus(geo_reply[i])
        /\ wx_reply[i].kind = "response"
        /\ wx_reply[i].status = 301
        /\ FailedWith(i, "UpstreamError")
        /\ Cardinality(GeoRequests(i)) = 1
        /\ Cardinality(WeatherRequests(i)) = 1

\* C8: the steps run in the order validation, geocoding, weather, assembly:
\* the first request is the geocoding request for the validated code; the
\* weather request is issued only after the geocoding call has succeeded and
\* produced a Location, with exactly that Location's latitude and longitude;
\* when geocoding fails no weather request is issued; a result is returned
\* only after both calls.
C8_StrictOrder ==
    \A i \in Invocations :
        /\ requests[i] # <<>> =>
              /\ Called(i)
              /\ requests[i][1] = GeoRequest("us", strip(argument[i]))
        /\ Len(requests[i]) <= 2
        /\ WeatherRequests(i) # {} =>
              /\ WeatherRequests(i) = {2}
              /\ HasPlaces(geo_reply[i])
              /\ geo[i] # NoGeo
              /\ requests[i][2].params.latitude = geo[i].latitude
              /\ requests[i][2].params.longitude = geo[i].longitude
              /\ geo[i].latitude = float(FirstEntry(geo_reply[i]).f["latitude"]).value
              /\ geo[i].longitude = float(FirstEntry(geo_reply[i]).f["longitude"]).value
        /\ (geo_reply[i] # NoReply /\ geo[i] = NoGeo) =>
              /\ Failed(i)
              /\ WeatherRequests(i) = {}
        /\ geo_reply[i] # NoReply => requests[i] # <<>>
        /\ wx_reply[i] # NoReply => WeatherRequests(i) # {}
        /\ Succeeded(i) => wx_reply[i] # NoReply

C8_Witness ==
    \E i \in Invocations :
        /\ pc[i] = "await_weather"
        /\ requests[i][2].params.latitude = PyNum(423, 1)
        /\ requests[i][2].params.longitude = PyNum(0 - 711, 1)
        /\ FirstEntry(geo_reply[i]).f["latitude"] = Lat0

\* The outcome of one invocation run alone, from its argument and the two
\* upstream replies.
RunAlone(arg, geo_outcome, wx_outcome) ==
    IF ~ValidZip(strip(arg)) THEN Err(InvalidZip)
    ELSE LET found == zip_to_geo(strip(arg), geo_outcome)
         IN  IF ~found.ok THEN found
             ELSE Assemble(strip(arg), found.value, wx_outcome)

\* C9: overlapping invocations are independent: under every interleaving each
\* finished invocation ends as it would when run alone with its argument and
\* its upstream replies, so two invocations with the same argument and the
\* same replies end the same.
C9_Independent ==
    /\ \A i \in Invocations :
          Done(i) => returned[i] = RunAlone(argument[i], geo_reply[i], wx_reply[i])
    /\ \A i, j \in Invocations :
          (/\ Done(i) /\ Done(j)
           /\ argument[i] = argument[j]
           /\ geo_reply[i] = geo_reply[j]
           /\ wx_reply[i] = wx_reply[j])
          => returned[i] = returned[j]

C9_Witness ==
    \E i, j \in Invocations :
        /\ i # j
        /\ Succeeded(i)
        /\ pc[j] = "await_weather"
        /\ argument[i] = argument[j]
        /\ geo_reply[i] # geo_reply[j]

\* C10: validation and the two upstream calls are the only failure points:
\* once validation has passed and both calls have returned a success status
\* with a JSON object, the geocoding body holding a non-empty "places" list
\* whose first entry has numeric coordinates, the invocation returns a result,
\* whatever the remaining fields hold ("current" included), with missing
\* observations null.
C10_OnlyFailurePoints ==
    \A i \in Invocations :
        (/\ Done(i)
         /\ HasPlaces(geo_reply[i])
         /\ FirstEntry(geo_reply[i]).t = "dict"
         /\ Numeric(FirstEntry(geo_reply[i]), "latitude")
         /\ Numeric(FirstEntry(geo_reply[i]), "longitude")
         /\ SuccessDict(wx_reply[i]))
        => /\ Succeeded(i)
           /\ \A k \in ObservedKeys :
                 returned[i].value.observed[k] = Reported(wx_reply[i], k)

=============================================================================
